---- MODULE Spec2Model ----
(***************************************************************************)
(* Model of the deferred-delivery layer of the log viewer                  *)
(* (treebuild/effectCallbacks.ts) and of the text the VariableValue        *)
(* component displays (details/components/Common.tsx).                     *)
(*                                                                         *)
(* Program state: the four module-level variables of effectCallbacks.ts,   *)
(* and the view settings / props / rendered output of VariableValue.       *)
(* Three history variables record what the environment did and saw:        *)
(*   history  every completed call of the four exported functions          *)
(*   invoked  every invocation of a registered callback, with the index    *)
(*            in history of the call during which it happened              *)
(*   before   the module-level variables as they were when the last call   *)
(*            of history was entered                                       *)
(* Under Spec a callback returns normally and does not call back into the  *)
(* module, so every exported function is one atomic step of the event loop *)
(* (single-threaded, synchronous calls).                                   *)
(* SpecReentrant adds registrations whose callback delivers again from     *)
(* inside the flush (the outer call and the nested call are one step, and  *)
(* before is the state on entry to the outer call); SpecThrow adds         *)
(* registrations whose callback throws during the flush.                   *)
(***************************************************************************)
EXTENDS Integers, Sequences, FiniteSets, TLC

VARIABLES
    callsToSetAllEntries,        \* effectCallbacks.ts:4   pending entry-tree payload
    reactSetAllEntriesCallback,  \* effectCallbacks.ts:12  registered entry-tree consumer
    callsToSetRunInfo,           \* effectCallbacks.ts:51  pending run-info payload
    reactSetRunInfoCallback,     \* effectCallbacks.ts:52  registered run-info consumer
    viewSettings,                \* Common.tsx:40   useLogContext().viewSettings
    props,                       \* Common.tsx:35   props of VariableValue
    rendered,                    \* Common.tsx:78   props handed to <Code>
    history,                     \* completed calls of the exported functions
    invoked,                     \* callback invocations
    before                       \* the four module variables before the last call

bufferVars == <<callsToSetAllEntries, reactSetAllEntriesCallback,
                callsToSetRunInfo, reactSetRunInfoCallback, history, invoked,
                before>>
viewVars == <<viewSettings, props, rendered>>
vars == <<callsToSetAllEntries, reactSetAllEntriesCallback, callsToSetRunInfo,
          reactSetRunInfoCallback, viewSettings, props, rendered, history, invoked,
          before>>

---------------------------------------------------------------------------
(* Bounds and input sets *)

\* Number of calls of the exported functions in one behaviour.
MaxOps == 3

\* Longest raw value handed to VariableValue.
MaxStrLen == 3

\* The JavaScript value undefined.
Undefined == [undefined |-> TRUE]

\* Functions a consumer may register (any), per kind.
EntriesCallbacks == {[fn |-> "setAllEntries1"], [fn |-> "setAllEntries2"]}
RunInfoCallbacks == {[fn |-> "setRunInfo1"], [fn |-> "setRunInfo2"]}

\* Snapshots the producer hands over.
AllEntriesValues == {<<"e1">>, <<"e1", "e2">>}
ConsoleEntriesValues == {<<>>, <<"c1">>}
NewExpandedValues == {<<"n1">>, <<"n2">>}
UpdatedFromIndexValues == {0, 2}
RunInfoValues == {"run1", "run2"}

\* Argument lists of setAllEntriesWhenPossible: updatedFromIndex may be omitted.
AllEntriesArgs ==
    [allEntries: AllEntriesValues, newExpanded: NewExpandedValues,
     consoleEntries: ConsoleEntriesValues, updatedFromIndex: UpdatedFromIndexValues]
    \cup
    [allEntries: AllEntriesValues, newExpanded: NewExpandedValues,
     consoleEntries: ConsoleEntriesValues]

---------------------------------------------------------------------------
(* effectCallbacks.ts *)

\* One invocation of callback cb with payload p during call number n.
Invocation(cb, p, n) == [callback |-> cb, payload |-> p, during |-> n]

Min(a, b) == IF a <= b THEN a ELSE b

\* Variant of UpdatedFromIndexParam with another default.
UpdatedFromIndexParam_DefaultMinusOne(args) ==
    IF "updatedFromIndex" \in DOMAIN args THEN args.updatedFromIndex ELSE -1

\* The default parameter value: updatedFromIndex = 0.
UpdatedFromIndexParam(args) ==
    IF "updatedFromIndex" \in DOMAIN args THEN args.updatedFromIndex ELSE 0

\* The four positional parameters of setAllEntriesWhenPossible on entry.
Params(args) ==
    [allEntries |-> args.allEntries,
     newExpanded |-> args.newExpanded,
     consoleEntries |-> args.consoleEntries,
     updatedFromIndex |-> UpdatedFromIndexParam(args)]

\* Variants of BufferAllEntries with one merge rule changed.
BufferAllEntries_FirstWins(pending, p) ==
    IF pending # Undefined
    THEN pending
    ELSE [allEntries |-> p.allEntries,
          newExpanded |-> p.newExpanded,
          consoleEntries |-> p.consoleEntries,
          updatedFromIndex |-> p.updatedFromIndex]

BufferAllEntries_StaleConsole(pending, p) ==
    [allEntries |-> p.allEntries,
     newExpanded |-> IF pending # Undefined
                     THEN pending.newExpanded \o p.newExpanded
                     ELSE p.newExpanded,
     consoleEntries |-> IF pending # Undefined
                        THEN pending.consoleEntries
                        ELSE p.consoleEntries,
     updatedFromIndex |-> IF pending # Undefined
                          THEN Min(p.updatedFromIndex, pending.updatedFromIndex)
                          ELSE p.updatedFromIndex]

BufferAllEntries_LastIndex(pending, p) ==
    [allEntries |-> p.allEntries,
     newExpanded |-> IF pending # Undefined
                     THEN pending.newExpanded \o p.newExpanded
                     ELSE p.newExpanded,
     consoleEntries |-> p.consoleEntries,
     updatedFromIndex |-> p.updatedFromIndex]

BufferAllEntries_Prepend(pending, p) ==
    [allEntries |-> p.allEntries,
     newExpanded |-> IF pending # Undefined
                     THEN p.newExpanded \o pending.newExpanded
                     ELSE p.newExpanded,
     consoleEntries |-> p.consoleEntries,
     updatedFromIndex |-> IF pending # Undefined
                          THEN Min(p.updatedFromIndex, pending.updatedFromIndex)
                          ELSE p.updatedFromIndex]

BufferAllEntries_MaxIndex(pending, p) ==
    [allEntries |-> p.allEntries,
     newExpanded |-> IF pending # Undefined
                     THEN pending.newExpanded \o p.newExpanded
                     ELSE p.newExpanded,
     consoleEntries |-> p.consoleEntries,
     updatedFromIndex |-> IF pending # Undefined
                          THEN -Min(-p.updatedFromIndex, -pending.updatedFromIndex)
                          ELSE p.updatedFromIndex]

\* The else branch of setAllEntriesWhenPossible: the value assigned to
\* callsToSetAllEntries when no callback is registered.
BufferAllEntries(pending, p) ==
    IF pending # Undefined
    THEN [allEntries |-> p.allEntries,
          newExpanded |-> pending.newExpanded \o p.newExpanded,
          consoleEntries |-> p.consoleEntries,
          updatedFromIndex |-> Min(p.updatedFromIndex, pending.updatedFromIndex)]
    ELSE [allEntries |-> p.allEntries,
          newExpanded |-> p.newExpanded,
          consoleEntries |-> p.consoleEntries,
          updatedFromIndex |-> p.updatedFromIndex]

\* Variant of FlushAllEntries that calls the callback whether or not a
\* payload is pending.
FlushAllEntries_Unconditional(cb, pending, n) ==
    <<Invocation(cb,
                 IF pending # Undefined
                 THEN [allEntries |-> pending.allEntries,
                       newExpanded |-> pending.newExpanded,
                       consoleEntries |-> pending.consoleEntries,
                       updatedFromIndex |-> pending.updatedFromIndex]
                 ELSE [allEntries |-> <<>>, newExpanded |-> <<>>,
                       consoleEntries |-> <<>>, updatedFromIndex |-> 0],
                 n)>>

\* Invocations made by reactCallSetAllEntriesCallback(cb) as call number n.
FlushAllEntries(cb, pending, n) ==
    IF pending # Undefined
    THEN <<Invocation(cb,
                      [allEntries |-> pending.allEntries,
                       newExpanded |-> pending.newExpanded,
                       consoleEntries |-> pending.consoleEntries,
                       updatedFromIndex |-> pending.updatedFromIndex],
                      n)>>
    ELSE <<>>

\* Variant of AllEntriesAfterFlush that never clears the pending payload.
AllEntriesAfterFlush_Kept(pending) == pending

\* Value of callsToSetAllEntries when reactCallSetAllEntriesCallback returns.
AllEntriesAfterFlush(pending) ==
    IF pending # Undefined THEN Undefined ELSE pending

\* Variant of ForwardAllEntries that returns without calling the callback.
ForwardAllEntries_Dropped(cb, p, n) == <<>>

\* Invocations made by setAllEntriesWhenPossible with parameters p as call n.
ForwardAllEntries(cb, p, n) ==
    IF cb # Undefined THEN <<Invocation(cb, p, n)>> ELSE <<>>

\* The module-level variables on entry to a call.
ModuleState ==
    [callsToSetAllEntries |-> callsToSetAllEntries,
     reactSetAllEntriesCallback |-> reactSetAllEntriesCallback,
     callsToSetRunInfo |-> callsToSetRunInfo,
     reactSetRunInfoCallback |-> reactSetRunInfoCallback]

\* Variant of AllEntriesAfterDeliver without the else: a forwarded payload is
\* buffered as well.
AllEntriesAfterDeliver_AlsoBuffered(cb, pending, p) ==
    BufferAllEntries(pending, p)

\* Value of callsToSetAllEntries when setAllEntriesWhenPossible returns.
AllEntriesAfterDeliver(cb, pending, p) ==
    IF cb # Undefined THEN pending ELSE BufferAllEntries(pending, p)

\* Variant of reactCallSetAllEntriesCallback that keeps a callback already
\* registered.
reactCallSetAllEntriesCallback_KeepsFirst(setAllentriesCallback) ==
    /\ Len(history) < MaxOps
    /\ reactSetAllEntriesCallback' =
           IF reactSetAllEntriesCallback # Undefined
           THEN reactSetAllEntriesCallback
           ELSE setAllentriesCallback
    /\ invoked' = invoked \o FlushAllEntries(setAllentriesCallback,
                                             callsToSetAllEntries,
                                             Len(history) + 1)
    /\ callsToSetAllEntries' = AllEntriesAfterFlush(callsToSetAllEntries)
    /\ before' = ModuleState
    /\ history' = Append(history, [op |-> "reactCallSetAllEntriesCallback",
                                   callback |-> setAllentriesCallback])
    /\ UNCHANGED <<callsToSetRunInfo, reactSetRunInfoCallback, viewVars>>

reactCallSetAllEntriesCallback(setAllentriesCallback) ==
    /\ Len(history) < MaxOps
    /\ reactSetAllEntriesCallback' = setAllentriesCallback
    /\ invoked' = invoked \o FlushAllEntries(setAllentriesCallback,
                                             callsToSetAllEntries,
                                             Len(history) + 1)
    /\ callsToSetAllEntries' = AllEntriesAfterFlush(callsToSetAllEntries)
    /\ before' = ModuleState
    /\ history' = Append(history, [op |-> "reactCallSetAllEntriesCallback",
                                   callback |-> setAllentriesCallback])
    /\ UNCHANGED <<callsToSetRunInfo, reactSetRunInfoCallback, viewVars>>

\* Variant of setAllEntriesWhenPossible that drops the registration once it
\* has forwarded a payload.
setAllEntriesWhenPossible_Unregisters(args) ==
    /\ Len(history) < MaxOps
    /\ invoked' = invoked \o ForwardAllEntries(reactSetAllEntriesCallback,
                                               Params(args), Len(history) + 1)
    /\ callsToSetAllEntries' =
           AllEntriesAfterDeliver(reactSetAllEntriesCallback,
                                  callsToSetAllEntries, Params(args))
    /\ reactSetAllEntriesCallback' = Undefined
    /\ before' = ModuleState
    /\ history' = Append(history, [op |-> "setAllEntriesWhenPossible",
                                   args |-> args])
    /\ UNCHANGED <<callsToSetRunInfo, reactSetRunInfoCallback, viewVars>>

setAllEntriesWhenPossible(args) ==
    /\ Len(history) < MaxOps
    /\ invoked' = invoked \o ForwardAllEntries(reactSetAllEntriesCallback,
                                               Params(args), Len(history) + 1)
    /\ callsToSetAllEntries' =
           AllEntriesAfterDeliver(reactSetAllEntriesCallback,
                                  callsToSetAllEntries, Params(args))
    /\ before' = ModuleState
    /\ history' = Append(history, [op |-> "setAllEntriesWhenPossible",
                                   args |-> args])
    /\ UNCHANGED <<reactSetAllEntriesCallback, callsToSetRunInfo,
                   reactSetRunInfoCallback, viewVars>>

\* Invocations made by reactCallSetRunInfoCallback(cb) as call number n.
FlushRunInfo(cb, pending, n) ==
    IF pending # Undefined
    THEN <<Invocation(cb, [runInfo |-> pending.runInfo], n)>>
    ELSE <<>>

\* Variant of RunInfoAfterFlush that never clears the pending value.
RunInfoAfterFlush_Kept(pending) == pending

\* Value of callsToSetRunInfo when reactCallSetRunInfoCallback returns.
RunInfoAfterFlush(pending) ==
    IF pending # Undefined THEN Undefined ELSE pending

\* Variant of BufferRunInfo that keeps the value already pending.
BufferRunInfo_FirstWins(pending, runInfo) ==
    IF pending # Undefined THEN pending ELSE [runInfo |-> runInfo]

\* The else branch of setRunInfoWhenPossible.
BufferRunInfo(pending, runInfo) == [runInfo |-> runInfo]

\* Variant of RunInfoAfterDeliver without the else: a forwarded value is
\* buffered as well.
RunInfoAfterDeliver_AlsoBuffered(cb, pending, runInfo) ==
    BufferRunInfo(pending, runInfo)

\* Value of callsToSetRunInfo when setRunInfoWhenPossible returns.
RunInfoAfterDeliver(cb, pending, runInfo) ==
    IF cb # Undefined THEN pending ELSE BufferRunInfo(pending, runInfo)

\* Invocations made by setRunInfoWhenPossible(runInfo) as call number n.
ForwardRunInfo(cb, runInfo, n) ==
    IF cb # Undefined THEN <<Invocation(cb, [runInfo |-> runInfo], n)>> ELSE <<>>

\* Variant of reactCallSetRunInfoCallback that clears the entry-tree buffer
\* instead of its own.
reactCallSetRunInfoCallback_ClearsEntries(setRunInfoCallback) ==
    /\ Len(history) < MaxOps
    /\ reactSetRunInfoCallback' = setRunInfoCallback
    /\ invoked' = invoked \o FlushRunInfo(setRunInfoCallback, callsToSetRunInfo,
                                          Len(history) + 1)
    /\ callsToSetAllEntries' =
           IF callsToSetRunInfo # Undefined THEN Undefined ELSE callsToSetAllEntries
    /\ before' = ModuleState
    /\ history' = Append(history, [op |-> "reactCallSetRunInfoCallback",
                                   callback |-> setRunInfoCallback])
    /\ UNCHANGED <<callsToSetRunInfo, reactSetAllEntriesCallback, viewVars>>

reactCallSetRunInfoCallback(setRunInfoCallback) ==
    /\ Len(history) < MaxOps
    /\ reactSetRunInfoCallback' = setRunInfoCallback
    /\ invoked' = invoked \o FlushRunInfo(setRunInfoCallback, callsToSetRunInfo,
                                          Len(history) + 1)
    /\ callsToSetRunInfo' = RunInfoAfterFlush(callsToSetRunInfo)
    /\ before' = ModuleState
    /\ history' = Append(history, [op |-> "reactCallSetRunInfoCallback",
                                   callback |-> setRunInfoCallback])
    /\ UNCHANGED <<callsToSetAllEntries, reactSetAllEntriesCallback, viewVars>>

setRunInfoWhenPossible(runInfo) ==
    /\ Len(history) < MaxOps
    /\ invoked' = invoked \o ForwardRunInfo(reactSetRunInfoCallback, runInfo,
                                            Len(history) + 1)
    /\ callsToSetRunInfo' =
           RunInfoAfterDeliver(reactSetRunInfoCallback, callsToSetRunInfo, runInfo)
    /\ before' = ModuleState
    /\ history' = Append(history, [op |-> "setRunInfoWhenPossible",
                                   runInfo |-> runInfo])
    /\ UNCHANGED <<callsToSetAllEntries, reactSetAllEntriesCallback,
                   reactSetRunInfoCallback, viewVars>>

---------------------------------------------------------------------------
(* effectCallbacks.ts with a callback that calls back into the module *)

\* Variant of CallbackDuringFlush for a register function that stores the
\* callback only after it has called it.
CallbackDuringFlush_StoredAfter(current, new) == current

\* The registered callback while a register function is calling the callback
\* it was given: the assignment (lines 18, 55) precedes the call (lines 20, 57).
CallbackDuringFlush(current, new) == new

\* reactCallSetAllEntriesCallback(cb) finding a payload pending, with a callback
\* that calls setAllEntriesWhenPossible(nested) before it returns. The whole
\* synchronous call is one step: line 18, the call of lines 20-25 with the
\* nested call inside it, then line 26. The nested call is recorded in history
\* after the registration, with the number of the call it was made within.
reactCallSetAllEntriesCallbackReentered(setAllentriesCallback, nested) ==
    LET during == CallbackDuringFlush(reactSetAllEntriesCallback,
                                      setAllentriesCallback)
        n == Len(history) + 1
    IN  /\ Len(history) + 2 <= MaxOps
        /\ callsToSetAllEntries # Undefined
        /\ reactSetAllEntriesCallback' = setAllentriesCallback
        /\ invoked' = invoked
                      \o FlushAllEntries(setAllentriesCallback,
                                         callsToSetAllEntries, n)
                      \o ForwardAllEntries(during, Params(nested), n + 1)
        /\ callsToSetAllEntries' =
               AllEntriesAfterFlush(
                   AllEntriesAfterDeliver(during, callsToSetAllEntries,
                                          Params(nested)))
        /\ before' = ModuleState
        /\ history' = history
                      \o <<[op |-> "reactCallSetAllEntriesCallback",
                            callback |-> setAllentriesCallback],
                           [op |-> "setAllEntriesWhenPossible",
                            args |-> nested, within |-> n]>>
        /\ UNCHANGED <<callsToSetRunInfo, reactSetRunInfoCallback, viewVars>>

\* reactCallSetRunInfoCallback(cb) finding a value pending, with a callback that
\* calls setRunInfoWhenPossible(nested) before it returns: line 55, the call of
\* line 57 with the nested call inside it, then line 58.
reactCallSetRunInfoCallbackReentered(setRunInfoCallback, nested) ==
    LET during == CallbackDuringFlush(reactSetRunInfoCallback, setRunInfoCallback)
        n == Len(history) + 1
    IN  /\ Len(history) + 2 <= MaxOps
        /\ callsToSetRunInfo # Undefined
        /\ reactSetRunInfoCallback' = setRunInfoCallback
        /\ invoked' = invoked
                      \o FlushRunInfo(setRunInfoCallback, callsToSetRunInfo, n)
                      \o ForwardRunInfo(during, nested, n + 1)
        /\ callsToSetRunInfo' =
               RunInfoAfterFlush(
                   RunInfoAfterDeliver(during, callsToSetRunInfo, nested))
        /\ before' = ModuleState
        /\ history' = history
                      \o <<[op |-> "reactCallSetRunInfoCallback",
                            callback |-> setRunInfoCallback],
                           [op |-> "setRunInfoWhenPossible",
                            runInfo |-> nested, within |-> n]>>
        /\ UNCHANGED <<callsToSetAllEntries, reactSetAllEntriesCallback, viewVars>>

---------------------------------------------------------------------------
(* effectCallbacks.ts with a callback that throws *)

\* Variant of PendingWhenCallbackThrows for a register function that clears
\* the pending value before it calls the callback.
PendingWhenCallbackThrows_Cleared(pending) == Undefined

\* Value of the pending variable when a register function is left by an
\* exception of the callback it called: the call (lines 20-25, 57) is not in a
\* try block, so the assignment after it (lines 26, 58) is not reached.
PendingWhenCallbackThrows(pending) == pending

\* reactCallSetAllEntriesCallback(cb) finding a payload pending, with a callback
\* that throws: line 18 and the call of lines 20-25 have run, line 26 has not.
reactCallSetAllEntriesCallbackThrows(setAllentriesCallback) ==
    /\ Len(history) < MaxOps
    /\ callsToSetAllEntries # Undefined
    /\ reactSetAllEntriesCallback' = setAllentriesCallback
    /\ invoked' = invoked \o FlushAllEntries(setAllentriesCallback,
                                             callsToSetAllEntries,
                                             Len(history) + 1)
    /\ callsToSetAllEntries' = PendingWhenCallbackThrows(callsToSetAllEntries)
    /\ before' = ModuleState
    /\ history' = Append(history, [op |-> "reactCallSetAllEntriesCallback",
                                   callback |-> setAllentriesCallback,
                                   threw |-> TRUE])
    /\ UNCHANGED <<callsToSetRunInfo, reactSetRunInfoCallback, viewVars>>

\* reactCallSetRunInfoCallback(cb) finding a value pending, with a callback that
\* throws: line 55 and the call of line 57 have run, line 58 has not.
reactCallSetRunInfoCallbackThrows(setRunInfoCallback) ==
    /\ Len(history) < MaxOps
    /\ callsToSetRunInfo # Undefined
    /\ reactSetRunInfoCallback' = setRunInfoCallback
    /\ invoked' = invoked \o FlushRunInfo(setRunInfoCallback, callsToSetRunInfo,
                                          Len(history) + 1)
    /\ callsToSetRunInfo' = PendingWhenCallbackThrows(callsToSetRunInfo)
    /\ before' = ModuleState
    /\ history' = Append(history, [op |-> "reactCallSetRunInfoCallback",
                                   callback |-> setRunInfoCallback,
                                   threw |-> TRUE])
    /\ UNCHANGED <<callsToSetAllEntries, reactSetAllEntriesCallback, viewVars>>

---------------------------------------------------------------------------
(* Common.tsx: VariableValue and FormatHeaderActions *)

\* FormatType.
Formats == {"auto", "raw", "pretty"}

\* Characters of a raw value; a string is the sequence of its characters.
Chars == {"a", "b", "\n"}

RECURSIVE StringsUpTo(_)
StringsUpTo(n) ==
    IF n = 0 THEN {<<>>}
    ELSE LET shorter == StringsUpTo(n - 1)
         IN  shorter \cup {Append(s, c) : s \in shorter, c \in Chars}

Strings == StringsUpTo(MaxStrLen)

\* String.prototype.includes for a one-character search string.
Includes(s, ch) == \E i \in DOMAIN s : s[i] = ch

\* ~/lib/prettyPrint: the transform itself is outside the modelled sources; its
\* result is kept as the term "prettyPrint(" s ")", which is no raw value and
\* differs for different s.
prettyPrint(s) == <<"prettyPrint(">> \o s \o <<")">>

\* Variant of VariableValue with the test of the auto case inverted.
VariableValue_AutoInverted(p, settings) ==
    [value |->
        CASE settings.format = "auto" ->
                 IF Includes(p.value, "\n") THEN prettyPrint(p.value) ELSE p.value
          [] settings.format = "raw" -> p.value
          [] settings.format = "pretty" -> prettyPrint(p.value),
     lineNumbers |-> Includes(p.value, "\n")]

\* The body of VariableValue: the value and lineNumbers props handed to <Code>.
VariableValue(p, settings) ==
    [value |->
        CASE settings.format = "auto" ->
                 IF Includes(p.value, "\n") THEN p.value ELSE prettyPrint(p.value)
          [] settings.format = "raw" -> p.value
          [] settings.format = "pretty" -> prettyPrint(p.value),
     lineNumbers |-> Includes(p.value, "\n")]

\* setViewSettings((curr) => ({...curr, format})), followed by the re-render.
SetFormat(format) ==
    /\ viewSettings' = [viewSettings EXCEPT !.format = format]
    /\ rendered' = VariableValue(props, viewSettings')
    /\ UNCHANGED <<props, bufferVars>>

onClickAuto == SetFormat("auto")

onClickRaw == SetFormat("raw")

onClickFormat == SetFormat("pretty")

\* The parent renders VariableValue with another value.
RenderValue(value) ==
    /\ props' = [props EXCEPT !.value = value]
    /\ rendered' = VariableValue(props', viewSettings)
    /\ UNCHANGED <<viewSettings, bufferVars>>

---------------------------------------------------------------------------
(* Specifications *)

InitBuffers ==
    /\ callsToSetAllEntries = Undefined
    /\ reactSetAllEntriesCallback = Undefined
    /\ callsToSetRunInfo = Undefined
    /\ reactSetRunInfoCallback = Undefined
    /\ history = <<>>
    /\ invoked = <<>>
    /\ before = [callsToSetAllEntries |-> Undefined,
                 reactSetAllEntriesCallback |-> Undefined,
                 callsToSetRunInfo |-> Undefined,
                 reactSetRunInfoCallback |-> Undefined]

Init ==
    /\ InitBuffers
    /\ viewSettings = [format |-> "auto"]
    /\ props = [value |-> <<>>]
    /\ rendered = VariableValue(props, viewSettings)

Next ==
    \/ \E cb \in EntriesCallbacks : reactCallSetAllEntriesCallback(cb)
    \/ \E args \in AllEntriesArgs : setAllEntriesWhenPossible(args)
    \/ \E cb \in RunInfoCallbacks : reactCallSetRunInfoCallback(cb)
    \/ \E runInfo \in RunInfoValues : setRunInfoWhenPossible(runInfo)

Spec == Init /\ [][Next]_vars

\* The value display alone: the user picks formats, the parent hands over values.
NextFormat ==
    \/ onClickAuto
    \/ onClickRaw
    \/ onClickFormat
    \/ \E value \in Strings : RenderValue(value)

SpecFormat == Init /\ [][NextFormat]_vars

\* The calls of Spec, and registrations whose callback delivers again while
\* the backlog is being flushed to it.
NextReentrant ==
    \/ Next
    \/ \E cb \in EntriesCallbacks, nested \in AllEntriesArgs :
          reactCallSetAllEntriesCallbackReentered(cb, nested)
    \/ \E cb \in RunInfoCallbacks, nested \in RunInfoValues :
          reactCallSetRunInfoCallbackReentered(cb, nested)

SpecReentrant == Init /\ [][NextReentrant]_vars

\* The calls of Spec, and registrations whose callback throws while the
\* backlog is being flushed to it.
NextThrow ==
    \/ Next
    \/ \E cb \in EntriesCallbacks : reactCallSetAllEntriesCallbackThrows(cb)
    \/ \E cb \in RunInfoCallbacks : reactCallSetRunInfoCallbackThrows(cb)

SpecThrow == Init /\ [][NextThrow]_vars

---------------------------------------------------------------------------
(* Reading the history *)

IsEntriesDeliver(h) == h.op = "setAllEntriesWhenPossible"
IsEntriesRegister(h) == h.op = "reactCallSetAllEntriesCallback"
IsRunInfoDeliver(h) == h.op = "setRunInfoWhenPossible"
IsRunInfoRegister(h) == h.op = "reactCallSetRunInfoCallback"

Last(seq) == seq[Len(seq)]

Smallest(S) == CHOOSE i \in S : \A j \in S : i <= j
Largest(S) == CHOOSE i \in S : \A j \in S : j <= i

EntriesRegisterCalls == {i \in DOMAIN history : IsEntriesRegister(history[i])}
EntriesDeliverCalls == {i \in DOMAIN history : IsEntriesDeliver(history[i])}
RunInfoRegisterCalls == {i \in DOMAIN history : IsRunInfoRegister(history[i])}
RunInfoDeliverCalls == {i \in DOMAIN history : IsRunInfoDeliver(history[i])}

\* The setAllEntriesWhenPossible calls made before call number n, in call order.
EntriesDeliveredBefore(n) == SelectSeq(SubSeq(history, 1, n - 1), IsEntriesDeliver)

\* The setRunInfoWhenPossible calls made before call number n, in call order.
RunInfoDeliveredBefore(n) == SelectSeq(SubSeq(history, 1, n - 1), IsRunInfoDeliver)

\* The callback invocations made during call number n.
InvocationsDuring(n) == {j \in DOMAIN invoked : invoked[j].during = n}

\* The invocations of entry-tree callbacks, and those made while registering.
EntriesInvocations ==
    {j \in DOMAIN invoked :
        \/ IsEntriesDeliver(history[invoked[j].during])
        \/ IsEntriesRegister(history[invoked[j].during])}
EntriesFlushes ==
    {j \in DOMAIN invoked : IsEntriesRegister(history[invoked[j].during])}

\* The updatedFromIndex a call delivers: the one given, 0 when none is given.
DeliveredIndex(call) ==
    IF "updatedFromIndex" \in DOMAIN call.args THEN call.args.updatedFromIndex ELSE 0

\* The least updatedFromIndex delivered by a non-empty sequence of calls.
RECURSIVE LeastIndex(_)
LeastIndex(calls) ==
    IF Len(calls) = 1 THEN DeliveredIndex(calls[1])
    ELSE LET rest == LeastIndex(Tail(calls))
         IN  IF DeliveredIndex(calls[1]) <= rest THEN DeliveredIndex(calls[1]) ELSE rest

\* The newExpanded arrays of a sequence of calls, concatenated in call order.
RECURSIVE AllExpanded(_)
AllExpanded(calls) ==
    IF calls = <<>> THEN <<>>
    ELSE calls[1].args.newExpanded \o AllExpanded(Tail(calls))

\* The first registration of an entry-tree callback found a backlog.
FirstEntriesFlush(r) ==
    /\ r \in EntriesRegisterCalls
    /\ r = Smallest(EntriesRegisterCalls)
    /\ EntriesDeliveredBefore(r) # <<>>

---------------------------------------------------------------------------
(* Claims *)

\* C1: entry-tree kind, any interleaving of deliveries with registration: the
\* allEntries/consoleEntries of the most recent setAllEntriesWhenPossible call
\* are held in the pending buffer (and then no consumer is registered), or they
\* were the arguments of the most recent callback invocation; with a consumer
\* registered and at least one delivery made, the last snapshot the consumer
\* received is the last one delivered.
C1_NoUpdateLost ==
    IF EntriesDeliverCalls = {}
    THEN callsToSetAllEntries = Undefined /\ EntriesInvocations = {}
    ELSE LET last == history[Largest(EntriesDeliverCalls)].args
         IN  IF callsToSetAllEntries # Undefined
             THEN /\ reactSetAllEntriesCallback = Undefined
                  /\ callsToSetAllEntries.allEntries = last.allEntries
                  /\ callsToSetAllEntries.consoleEntries = last.consoleEntries
             ELSE /\ reactSetAllEntriesCallback # Undefined
                  /\ EntriesInvocations # {}
                  /\ LET seen == invoked[Largest(EntriesInvocations)].payload
                     IN  /\ seen.allEntries = last.allEntries
                         /\ seen.consoleEntries = last.consoleEntries

\* A delivery buffered, flushed by the registration, then a different snapshot
\* delivered live and seen by the consumer.
C1_Witness ==
    /\ Len(history) = 3
    /\ IsEntriesDeliver(history[1])
    /\ IsEntriesRegister(history[2])
    /\ IsEntriesDeliver(history[3])
    /\ history[1].args.allEntries # history[3].args.allEntries
    /\ Len(invoked) = 2
    /\ invoked[2].payload.allEntries = history[3].args.allEntries

\* C2: for every non-empty sequence of setAllEntriesWhenPossible calls made
\* before any registration, the payload flushed to the callback by the
\* registration has the allEntries and the consoleEntries of the last call of
\* the sequence.
C2_FlushedSnapshotIsLast ==
    \A r \in DOMAIN history :
        FirstEntriesFlush(r) =>
            LET last == Last(EntriesDeliveredBefore(r)).args
            IN  /\ InvocationsDuring(r) # {}
                /\ \A j \in InvocationsDuring(r) :
                      /\ invoked[j].payload.allEntries = last.allEntries
                      /\ invoked[j].payload.consoleEntries = last.consoleEntries

\* Two deliveries with different allEntries and different consoleEntries, then
\* the registration: the callback has received the second snapshot.
C2_Witness ==
    /\ Len(history) = 3
    /\ FirstEntriesFlush(3)
    /\ Len(EntriesDeliveredBefore(3)) = 2
    /\ history[1].args.allEntries # history[2].args.allEntries
    /\ history[1].args.consoleEntries # history[2].args.consoleEntries
    /\ Len(invoked) = 1
    /\ invoked[1].payload.allEntries = history[2].args.allEntries
    /\ invoked[1].payload.consoleEntries = history[2].args.consoleEntries

\* C3: for every non-empty sequence of setAllEntriesWhenPossible calls made
\* before any registration, the updatedFromIndex flushed to the callback by the
\* registration is the minimum of the updatedFromIndex values delivered.
C3_FlushedIndexIsMinimum ==
    \A r \in DOMAIN history :
        FirstEntriesFlush(r) =>
            /\ InvocationsDuring(r) # {}
            /\ \A j \in InvocationsDuring(r) :
                  invoked[j].payload.updatedFromIndex =
                      LeastIndex(EntriesDeliveredBefore(r))

\* Index 0 delivered explicitly, then index 2, then the registration: 0 is
\* flushed, which is not the index of the last delivery.
C3_Witness ==
    /\ Len(history) = 3
    /\ FirstEntriesFlush(3)
    /\ Len(EntriesDeliveredBefore(3)) = 2
    /\ "updatedFromIndex" \in DOMAIN history[1].args
    /\ DeliveredIndex(history[1]) = 0
    /\ DeliveredIndex(history[2]) = 2
    /\ Len(invoked) = 1
    /\ invoked[1].payload.updatedFromIndex = 0

\* C4: for every non-empty sequence of setAllEntriesWhenPossible calls made
\* before any registration, the newExpanded flushed to the callback by the
\* registration is the concatenation, earlier calls first, of every delivered
\* newExpanded, duplicates kept.
C4_FlushedExpandedIsConcatenation ==
    \A r \in DOMAIN history :
        FirstEntriesFlush(r) =>
            /\ InvocationsDuring(r) # {}
            /\ \A j \in InvocationsDuring(r) :
                  invoked[j].payload.newExpanded =
                      AllExpanded(EntriesDeliveredBefore(r))

\* "n2" delivered, then "n1", then the registration: <<"n2", "n1">> is flushed.
C4_Witness ==
    /\ Len(history) = 3
    /\ FirstEntriesFlush(3)
    /\ history[1].args.newExpanded = <<"n2">>
    /\ history[2].args.newExpanded = <<"n1">>
    /\ Len(invoked) = 1
    /\ invoked[1].payload.newExpanded = <<"n2", "n1">>

C6_RegisterWithoutPendingOnlyRecords ==
    history # <<>> =>
        /\ (IsEntriesRegister(Last(history)) /\ before.callsToSetAllEntries = Undefined)
           => /\ InvocationsDuring(Len(history)) = {}
              /\ reactSetAllEntriesCallback = Last(history).callback
              /\ callsToSetAllEntries = Undefined
              /\ callsToSetRunInfo = before.callsToSetRunInfo
              /\ reactSetRunInfoCallback = before.reactSetRunInfoCallback
        /\ (IsRunInfoRegister(Last(history)) /\ before.callsToSetRunInfo = Undefined)
           => /\ InvocationsDuring(Len(history)) = {}
              /\ reactSetRunInfoCallback = Last(history).callback
              /\ callsToSetRunInfo = Undefined
              /\ callsToSetAllEntries = before.callsToSetAllEntries
              /\ reactSetAllEntriesCallback = before.reactSetAllEntriesCallback

\* Both kinds registered before anything was delivered: no callback was invoked.
C6_Witness ==
    /\ Len(history) = 2
    /\ IsEntriesRegister(history[1])
    /\ IsRunInfoRegister(history[2])
    /\ before.callsToSetRunInfo = Undefined
    /\ invoked = <<>>
    /\ reactSetAllEntriesCallback = history[1].callback
    /\ reactSetRunInfoCallback = history[2].callback

\* C7: once a callback is registered, every delivery invokes the registered
\* callback exactly once, within that call, with exactly the arguments of that
\* call (an omitted updatedFromIndex arrives as its default 0): nothing is
\* merged with an earlier payload and nothing is buffered.
C7_RegisteredDeliveryForwardedAsIs ==
    history # <<>> =>
        /\ (IsEntriesDeliver(Last(history))
            /\ before.reactSetAllEntriesCallback # Undefined)
           => /\ Cardinality(InvocationsDuring(Len(history))) = 1
              /\ \A j \in InvocationsDuring(Len(history)) :
                    /\ j = Len(invoked)
                    /\ invoked[j].callback = before.reactSetAllEntriesCallback
                    /\ invoked[j].payload.allEntries = Last(history).args.allEntries
                    /\ invoked[j].payload.newExpanded = Last(history).args.newExpanded
                    /\ invoked[j].payload.consoleEntries =
                           Last(history).args.consoleEntries
                    /\ invoked[j].payload.updatedFromIndex =
                           DeliveredIndex(Last(history))
              /\ callsToSetAllEntries = before.callsToSetAllEntries
        /\ (IsRunInfoDeliver(Last(history))
            /\ before.reactSetRunInfoCallback # Undefined)
           => /\ Cardinality(InvocationsDuring(Len(history))) = 1
              /\ \A j \in InvocationsDuring(Len(history)) :
                    /\ j = Len(invoked)
                    /\ invoked[j].callback = before.reactSetRunInfoCallback
                    /\ invoked[j].payload.runInfo = Last(history).runInfo
              /\ callsToSetRunInfo = before.callsToSetRunInfo

\* A backlog with index 0 and "n1" flushed by the registration, then a delivery
\* with index 2 and "n2": the callback receives 2 and <<"n2">>, not 0 and
\* <<"n1", "n2">>.
C7_Witness ==
    /\ Len(history) = 3
    /\ IsEntriesDeliver(history[1])
    /\ IsEntriesRegister(history[2])
    /\ IsEntriesDeliver(history[3])
    /\ DeliveredIndex(history[1]) = 0
    /\ history[1].args.newExpanded = <<"n1">>
    /\ DeliveredIndex(history[3]) = 2
    /\ history[3].args.newExpanded = <<"n2">>
    /\ Len(invoked) = 2
    /\ invoked[2].payload.updatedFromIndex = 2
    /\ invoked[2].payload.newExpanded = <<"n2">>
    /\ callsToSetAllEntries = Undefined

\* The state of one kind (section 4.1 of the specification), from its consumer
\* reference and its pending buffer.
KindState(callback, pending) ==
    IF callback # Undefined
    THEN IF pending = Undefined THEN "Registered" ELSE "Registered-Pending"
    ELSE IF pending = Undefined THEN "Unregistered-Empty" ELSE "Unregistered-Pending"

KindStates == {"Unregistered-Empty", "Unregistered-Pending", "Registered"}

\* The five transitions listed in section 4.1.
ListedTransitions ==
    {<<"Unregistered-Empty", "deliver", "Unregistered-Pending">>,
     <<"Unregistered-Pending", "deliver", "Unregistered-Pending">>,
     <<"Unregistered-Pending", "register", "Registered">>,
     <<"Unregistered-Empty", "register", "Registered">>,
     <<"Registered", "deliver", "Registered">>}

EntriesState == KindState(reactSetAllEntriesCallback, callsToSetAllEntries)
RunInfoState == KindState(reactSetRunInfoCallback, callsToSetRunInfo)

\* The transition the last call made in the kind it belongs to.
LastTransition ==
    LET h == Last(history)
    IN  IF IsEntriesDeliver(h) \/ IsEntriesRegister(h)
        THEN <<KindState(before.reactSetAllEntriesCallback,
                         before.callsToSetAllEntries),
               IF IsEntriesDeliver(h) THEN "deliver" ELSE "register",
               EntriesState>>
        ELSE <<KindState(before.reactSetRunInfoCallback, before.callsToSetRunInfo),
               IF IsRunInfoDeliver(h) THEN "deliver" ELSE "register",
               RunInfoState>>

C9_DisplayedText ==
    rendered.value =
        IF viewSettings.format = "raw" THEN props.value
        ELSE IF viewSettings.format = "pretty" THEN prettyPrint(props.value)
        ELSE IF \E i \in 1..Len(props.value) : props.value[i] = "\n"
             THEN props.value
             ELSE prettyPrint(props.value)

\* Auto mode showing "a\nb" verbatim.
C9_Witness ==
    /\ viewSettings.format = "auto"
    /\ props.value = <<"a", "\n", "b">>
    /\ rendered.value = <<"a", "\n", "b">>

OwnParams(call) ==
    [allEntries |-> call.args.allEntries,
     newExpanded |-> call.args.newExpanded,
     consoleEntries |-> call.args.consoleEntries,
     updatedFromIndex |-> DeliveredIndex(call)]

RECURSIVE OwnParamsOfAll(_)
OwnParamsOfAll(calls) ==
    IF calls = <<>> THEN <<>>
    ELSE <<OwnParams(calls[1])>> \o OwnParamsOfAll(Tail(calls))

\* The single payload that stands for a non-empty backlog of calls: the last
\* snapshot, every newExpanded in call order, the least updatedFromIndex.
MergedBacklog(calls) ==
    [allEntries |-> Last(calls).args.allEntries,
     newExpanded |-> AllExpanded(calls),
     consoleEntries |-> Last(calls).args.consoleEntries,
     updatedFromIndex |-> LeastIndex(calls)]

IsEntriesInvocation(v) ==
    IsEntriesDeliver(history[v.during]) \/ IsEntriesRegister(history[v.during])

RECURSIVE PayloadsOf(_)
PayloadsOf(invocations) ==
    IF invocations = <<>> THEN <<>>
    ELSE <<invocations[1].payload>> \o PayloadsOf(Tail(invocations))

\* What entry-tree callbacks have received, in the order they received it.
ReceivedEntriesPayloads == PayloadsOf(SelectSeq(invoked, IsEntriesInvocation))

\* What the producer's calls amount to, in producer order: nothing before the
\* first registration, then the merged backlog (if any), then each later
\* delivery by itself.
ExpectedEntriesPayloads ==
    IF EntriesRegisterCalls = {} THEN <<>>
    ELSE LET r == Smallest(EntriesRegisterCalls)
             backlog == EntriesDeliveredBefore(r)
             later == SelectSeq(SubSeq(history, r + 1, Len(history)),
                                IsEntriesDeliver)
         IN  (IF backlog = <<>> THEN <<>> ELSE <<MergedBacklog(backlog)>>)
                 \o OwnParamsOfAll(later)

\* C11: the consumer receives payloads in producer order across the
\* registration point: the merged backlog of the deliveries made before the
\* registration first, then the payloads delivered after it, in the order of
\* the setAllEntriesWhenPossible calls.
C11_ProducerOrder ==
    /\ ReceivedEntriesPayloads = ExpectedEntriesPayloads
    /\ \A j, k \in EntriesInvocations :
          j < k => invoked[j].during < invoked[k].during

\* "n1" buffered, flushed by the registration, then "n2" delivered live: the
\* callback received the backlog first and the later payload second.
C11_Witness ==
    /\ Len(history) = 3
    /\ IsEntriesDeliver(history[1])
    /\ IsEntriesRegister(history[2])
    /\ IsEntriesDeliver(history[3])
    /\ history[1].args.newExpanded = <<"n1">>
    /\ history[3].args.newExpanded = <<"n2">>
    /\ Len(invoked) = 2
    /\ invoked[1].during = 2
    /\ invoked[1].payload.newExpanded = <<"n1">>
    /\ invoked[2].during = 3
    /\ invoked[2].payload.newExpanded = <<"n2">>

\* C12: while no consumer is registered, the updatedFromIndex held in the
\* entry-tree pending buffer never increases from one delivery to the next:
\* after each setAllEntriesWhenPossible call it is at most its value before the
\* call and at most the incoming value.
C12_PendingIndexNeverIncreases ==
    (/\ history # <<>>
     /\ IsEntriesDeliver(Last(history))
     /\ before.reactSetAllEntriesCallback = Undefined)
    => /\ callsToSetAllEntries # Undefined
       /\ callsToSetAllEntries.updatedFromIndex <= DeliveredIndex(Last(history))
       /\ before.callsToSetAllEntries # Undefined =>
             callsToSetAllEntries.updatedFromIndex <=
                 before.callsToSetAllEntries.updatedFromIndex

\* Index 0 pending, index 2 delivered, nobody registered: 0 stays pending.
C12_Witness ==
    /\ Len(history) = 2
    /\ IsEntriesDeliver(history[1])
    /\ IsEntriesDeliver(history[2])
    /\ before.reactSetAllEntriesCallback = Undefined
    /\ before.callsToSetAllEntries # Undefined
    /\ before.callsToSetAllEntries.updatedFromIndex = 0
    /\ DeliveredIndex(history[2]) = 2
    /\ callsToSetAllEntries.updatedFromIndex = 0

\* C13: a delivery never changes the consumer registration of its kind; the
\* only state it can change is the pending buffer of its own kind, and only
\* when no consumer is registered.
C13_DeliverLeavesRegistration ==
    history # <<>> =>
        /\ IsEntriesDeliver(Last(history)) =>
              /\ reactSetAllEntriesCallback = before.reactSetAllEntriesCallback
              /\ reactSetRunInfoCallback = before.reactSetRunInfoCallback
              /\ callsToSetRunInfo = before.callsToSetRunInfo
              /\ before.reactSetAllEntriesCallback # Undefined =>
                    callsToSetAllEntries = before.callsToSetAllEntries
        /\ IsRunInfoDeliver(Last(history)) =>
              /\ reactSetRunInfoCallback = before.reactSetRunInfoCallback
              /\ reactSetAllEntriesCallback = before.reactSetAllEntriesCallback
              /\ callsToSetAllEntries = before.callsToSetAllEntries
              /\ before.reactSetRunInfoCallback # Undefined =>
                    callsToSetRunInfo = before.callsToSetRunInfo

\* A run-info delivery to a registered consumer, with an entry-tree payload
\* pending: the registrations and both buffers are as before the call.
C13_Witness ==
    /\ Len(history) = 3
    /\ IsEntriesDeliver(history[1])
    /\ IsRunInfoRegister(history[2])
    /\ IsRunInfoDeliver(history[3])
    /\ reactSetRunInfoCallback = history[2].callback
    /\ reactSetAllEntriesCallback = Undefined
    /\ callsToSetRunInfo = Undefined
    /\ callsToSetAllEntries = before.callsToSetAllEntries
    /\ callsToSetAllEntries # Undefined

\* The callback given to the latest registration of a kind made before call
\* number n (there is one).
LatestEntriesCallbackBefore(n) ==
    history[Largest({i \in EntriesRegisterCalls : i < n})].callback
LatestRunInfoCallbackBefore(n) ==
    history[Largest({i \in RunInfoRegisterCalls : i < n})].callback

C15_RegisteredIsAbsorbing ==
    /\ EntriesRegisterCalls # {} =>
          /\ reactSetAllEntriesCallback # Undefined
          /\ callsToSetAllEntries = Undefined
    /\ RunInfoRegisterCalls # {} =>
          /\ reactSetRunInfoCallback # Undefined
          /\ callsToSetRunInfo = Undefined
    /\ before.reactSetAllEntriesCallback # Undefined =>
          reactSetAllEntriesCallback # Undefined
    /\ before.reactSetRunInfoCallback # Undefined =>
          reactSetRunInfoCallback # Undefined

\* A registration followed by two run-info deliveries: still registered, both
\* values forwarded, nothing buffered.
C15_Witness ==
    /\ Len(history) = 3
    /\ IsRunInfoRegister(history[1])
    /\ IsRunInfoDeliver(history[2])
    /\ IsRunInfoDeliver(history[3])
    /\ reactSetRunInfoCallback = history[1].callback
    /\ callsToSetRunInfo = Undefined
    /\ Len(invoked) = 2

\* The argument list of a call with updatedFromIndex given as 0.
WithIndexZero(args) ==
    [allEntries |-> args.allEntries,
     newExpanded |-> args.newExpanded,
     consoleEntries |-> args.consoleEntries,
     updatedFromIndex |-> 0]

\* The invocations made during the last call, in order: the tail of invoked.
LastCallInvocations ==
    SubSeq(invoked,
           Len(invoked) - Cardinality(InvocationsDuring(Len(history))) + 1,
           Len(invoked))

\* C16: a setAllEntriesWhenPossible call that omits updatedFromIndex does what
\* the same call with updatedFromIndex = 0 does, forwarded live or buffered;
\* so, the indices being non-negative, a backlog that contains such a call is
\* flushed with updatedFromIndex = 0.
C16_OmittedIndexIsZero ==
    /\ (/\ history # <<>>
        /\ IsEntriesDeliver(Last(history))
        /\ "updatedFromIndex" \notin DOMAIN Last(history).args)
       => /\ callsToSetAllEntries =
                 AllEntriesAfterDeliver(before.reactSetAllEntriesCallback,
                                        before.callsToSetAllEntries,
                                        WithIndexZero(Last(history).args))
          /\ LastCallInvocations
                 = ForwardAllEntries(before.reactSetAllEntriesCallback,
                                     WithIndexZero(Last(history).args),
                                     Len(history))
    /\ \A r \in DOMAIN history :
          (/\ FirstEntriesFlush(r)
           /\ \E i \in 1..(r - 1) :
                 /\ IsEntriesDeliver(history[i])
                 /\ "updatedFromIndex" \notin DOMAIN history[i].args)
          => \A j \in InvocationsDuring(r) : invoked[j].payload.updatedFromIndex = 0

\* Index 2 delivered, then a delivery without index, then the registration: 0
\* is flushed.
C16_Witness ==
    /\ Len(history) = 3
    /\ IsEntriesDeliver(history[1])
    /\ DeliveredIndex(history[1]) = 2
    /\ IsEntriesDeliver(history[2])
    /\ "updatedFromIndex" \notin DOMAIN history[2].args
    /\ IsEntriesRegister(history[3])
    /\ Len(invoked) = 1
    /\ invoked[1].payload.updatedFromIndex = 0

\* C17: the two kinds are independent: a call on the entry-tree kind leaves
\* the run-info pending value and callback unchanged and invokes no run-info
\* callback, and the other way round; registering one kind neither flushes
\* the other nor starts forwarding for it.
C17_KindsIndependent ==
    history # <<>> =>
        /\ (IsEntriesDeliver(Last(history)) \/ IsEntriesRegister(Last(history)))
           => /\ callsToSetRunInfo = before.callsToSetRunInfo
              /\ reactSetRunInfoCallback = before.reactSetRunInfoCallback
              /\ \A j \in InvocationsDuring(Len(history)) :
                    /\ invoked[j].callback \in EntriesCallbacks
                    /\ DOMAIN invoked[j].payload =
                           {"allEntries", "newExpanded", "consoleEntries",
                            "updatedFromIndex"}
        /\ (IsRunInfoDeliver(Last(history)) \/ IsRunInfoRegister(Last(history)))
           => /\ callsToSetAllEntries = before.callsToSetAllEntries
              /\ reactSetAllEntriesCallback = before.reactSetAllEntriesCallback
              /\ \A j \in InvocationsDuring(Len(history)) :
                    /\ invoked[j].callback \in RunInfoCallbacks
                    /\ DOMAIN invoked[j].payload = {"runInfo"}

\* Both kinds have a payload pending and the run-info consumer registers: the
\* run info is flushed, the entry-tree payload stays pending and unregistered.
C17_Witness ==
    /\ Len(history) = 3
    /\ IsEntriesDeliver(history[1])
    /\ IsRunInfoDeliver(history[2])
    /\ IsRunInfoRegister(history[3])
    /\ Len(invoked) = 1
    /\ invoked[1].callback \in RunInfoCallbacks
    /\ callsToSetRunInfo = Undefined
    /\ callsToSetAllEntries # Undefined
    /\ reactSetAllEntriesCallback = Undefined

\* The calls made from inside a callback while a registration was flushing.
NestedCalls == {i \in DOMAIN history : "within" \in DOMAIN history[i]}

\* C18: a delivery made from inside the callback while a registration is
\* flushing the backlog is not lost: the callback being stored before it is
\* called, the nested delivery is forwarded to it live, by itself, and is not
\* merged into the pending buffer; clearing the buffer at the end of the
\* registration discards only the payload that was flushed.
C18_ReentrantDeliveryForwarded ==
    \A i \in NestedCalls :
        LET r == history[i].within
        IN  /\ Cardinality(InvocationsDuring(r)) = 1
            /\ Cardinality(InvocationsDuring(i)) = 1
            /\ \A f \in InvocationsDuring(r), j \in InvocationsDuring(i) :
                  /\ f < j
                  /\ invoked[f].callback = history[r].callback
                  /\ invoked[j].callback = history[r].callback
                  /\ IsEntriesDeliver(history[i]) =>
                        /\ invoked[f].payload =
                               MergedBacklog(EntriesDeliveredBefore(r))
                        /\ invoked[j].payload = OwnParams(history[i])
                        /\ callsToSetAllEntries = Undefined
                  /\ IsRunInfoDeliver(history[i]) =>
                        /\ invoked[f].payload.runInfo =
                               Last(RunInfoDeliveredBefore(r)).runInfo
                        /\ invoked[j].payload.runInfo = history[i].runInfo
                        /\ callsToSetRunInfo = Undefined

\* "n1" with index 0 pending; the registration flushes it, and from inside the
\* callback "n2" with index 2 is delivered: the callback received the backlog
\* and then the nested payload as delivered, and nothing is pending.
C18_Witness ==
    /\ Len(history) = 3
    /\ IsEntriesDeliver(history[1])
    /\ IsEntriesRegister(history[2])
    /\ 3 \in NestedCalls
    /\ history[1].args.newExpanded = <<"n1">>
    /\ DeliveredIndex(history[1]) = 0
    /\ history[3].args.newExpanded = <<"n2">>
    /\ DeliveredIndex(history[3]) = 2
    /\ Len(invoked) = 2
    /\ invoked[1].payload.newExpanded = <<"n1">>
    /\ invoked[2].payload.newExpanded = <<"n2">>
    /\ invoked[2].payload.updatedFromIndex = 2
    /\ callsToSetAllEntries = Undefined

\* The last recorded call was left by an exception of the callback.
LastCallThrew == history # <<>> /\ "threw" \in DOMAIN Last(history)

\* The last call made exactly one invocation: of callback cb with payload p.
LastCallInvokedOnly(cb, p) ==
    /\ Len(LastCallInvocations) = 1
    /\ LastCallInvocations[1].callback = cb
    /\ LastCallInvocations[1].payload = p

\* C19: when the callback throws while a registration is flushing a pending
\* payload, the registration ends with the callback registered and the payload
\* still pending; later deliveries are forwarded live, as delivered, and leave
\* the retained payload as it is; only a later registration hands it out again
\* (and clears it when its callback returns).
C19_ThrowRetainsPending ==
    history # <<>> =>
        LET h == Last(history)
        IN  /\ (IsEntriesRegister(h) /\ LastCallThrew) =>
                  /\ before.callsToSetAllEntries # Undefined
                  /\ reactSetAllEntriesCallback = h.callback
                  /\ callsToSetAllEntries = before.callsToSetAllEntries
                  /\ LastCallInvokedOnly(h.callback, before.callsToSetAllEntries)
            /\ (IsRunInfoRegister(h) /\ LastCallThrew) =>
                  /\ before.callsToSetRunInfo # Undefined
                  /\ reactSetRunInfoCallback = h.callback
                  /\ callsToSetRunInfo = before.callsToSetRunInfo
                  /\ LastCallInvokedOnly(h.callback, before.callsToSetRunInfo)
            /\ (IsEntriesDeliver(h) /\ before.reactSetAllEntriesCallback # Undefined) =>
                  /\ callsToSetAllEntries = before.callsToSetAllEntries
                  /\ reactSetAllEntriesCallback = before.reactSetAllEntriesCallback
                  /\ LastCallInvokedOnly(before.reactSetAllEntriesCallback,
                                         OwnParams(h))
            /\ (IsRunInfoDeliver(h) /\ before.reactSetRunInfoCallback # Undefined) =>
                  /\ callsToSetRunInfo = before.callsToSetRunInfo
                  /\ reactSetRunInfoCallback = before.reactSetRunInfoCallback
                  /\ LastCallInvokedOnly(before.reactSetRunInfoCallback,
                                         [runInfo |-> h.runInfo])
            /\ (IsEntriesRegister(h) /\ ~LastCallThrew
                    /\ before.callsToSetAllEntries # Undefined) =>
                  /\ LastCallInvokedOnly(h.callback, before.callsToSetAllEntries)
                  /\ callsToSetAllEntries = Undefined
            /\ (IsRunInfoRegister(h) /\ ~LastCallThrew
                    /\ before.callsToSetRunInfo # Undefined) =>
                  /\ LastCallInvokedOnly(h.callback, before.callsToSetRunInfo)
                  /\ callsToSetRunInfo = Undefined
            /\ \A j \in DOMAIN invoked :
                  IsEntriesDeliver(history[invoked[j].during]) =>
                      invoked[j].payload = OwnParams(history[invoked[j].during])

\* "n1" is pending; a registration whose callback throws leaves it pending
\* with the callback registered; "n2" is then delivered: it went to the callback
\* as delivered and the retained payload is still the one with "n1".
C19_Witness ==
    /\ Len(history) = 3
    /\ IsEntriesDeliver(history[1])
    /\ history[1].args.newExpanded = <<"n1">>
    /\ IsEntriesRegister(history[2])
    /\ "threw" \in DOMAIN history[2]
    /\ IsEntriesDeliver(history[3])
    /\ history[3].args.newExpanded = <<"n2">>
    /\ reactSetAllEntriesCallback = history[2].callback
    /\ callsToSetAllEntries # Undefined
    /\ callsToSetAllEntries.newExpanded = <<"n1">>
    /\ Len(invoked) = 2
    /\ invoked[1].payload.newExpanded = <<"n1">>
    /\ invoked[2].payload.newExpanded = <<"n2">>

====
